---- MODULE Spec2Model ----
(***************************************************************************)
(* Model of the code-first migration system of crates/core-db             *)
(* (src/crates/core-db/src/migrations.rs): the Migration descriptor, the   *)
(* _schema_migrations ledger kept in the Postgres store, and               *)
(* MigrationRunner::run_migrations / get_status, one step per .await.      *)
(***************************************************************************)
EXTENDS Integers, Sequences, FiniteSets, Bags, TLC

\* ------------------------------------------------------------------ bounds
MaxLen == 2        \* longest migrations slice a caller passes to run_migrations
MaxCalls == 2      \* run_migrations / get_status calls made on the store in all
MaxSql == 3        \* longest sql text enumerated for a descriptor under checksum()
MaxSums == 2       \* checksum() calls made on one descriptor
MaxUsers == 2      \* User::new calls (fresh Uuids) made on one repository
MaxOps == 3        \* begin / commit / rollback calls made on the units of work in all
MaxData == 2       \* longest Vec<User> passed to with_data
MaxInserts == 3    \* successful inserts into one InMemoryBaseRepository between clears

\* ------------------------------------------------------- Migration (l.16-58)
\* sql is the text as the sequence of its (ASCII) character codes.
Migration(module, version, name, sql) ==
    [module |-> module, version |-> version, name |-> name, sql |-> sql]

\* A checksum that also covers the descriptor's name.
checksum_with_name(m) ==
    LET len == Len(m.sql)
        first == IF len = 0 THEN 48 ELSE m.sql[1]
        last == IF len = 0 THEN 48 ELSE m.sql[len]
    IN m.name \o ":" \o ToString(len) \o "-" \o ToString(first) \o "-" \o ToString(last)
\* Migration::checksum: "{len}-{first as u32}-{last as u32}", '0' (48) when empty.
checksum(m) ==
    LET len == Len(m.sql)
        first == IF len = 0 THEN 48 ELSE m.sql[1]
        last == IF len = 0 THEN 48 ELSE m.sql[len]
    IN ToString(len) \o "-" \o ToString(first) \o "-" \o ToString(last)

\* An id that also carries the descriptor's name.
id_with_name(m) == m.module \o ":version_" \o ToString(m.version) \o ":" \o m.name
\* Migration::id: "{module}:version_{version}".
id(m) == m.module \o ":version_" \o ToString(m.version)

\* The descriptors callers build their slices from: two versions of module
\* users, one of module products, and an edited copy of users v1 (other name
\* and sql, same module and version).
Users1 == Migration("users", 1, "create_users_table", <<67, 59>>)
Users1Edited == Migration("users", 1, "create_users", <<68, 82, 59>>)
Users2 == Migration("users", 2, "add_user_roles", <<65, 59>>)
Products1 == Migration("products", 1, "create_products", <<67, 59>>)
Catalog == {Users1, Users1Edited, Users2, Products1}
\* The descriptors of two runners that overlap.
CatalogConc == {Users1, Users1Edited}

RECURSIVE SeqsUpTo(_, _)
SeqsUpTo(S, n) ==
    IF n = 0 THEN {<<>>}
    ELSE LET shorter == SeqsUpTo(S, n - 1)
         IN shorter \cup {Append(s, x) : s \in {t \in shorter : Len(t) = n - 1}, x \in S}

\* Every slice &[Migration] of at most MaxLen descriptors of S.
Inputs(S) == SeqsUpTo(S, MaxLen)

Runners == {1, 2}

\* The sql texts of the descriptors whose checksum() is compared: every text of
\* at most MaxSql characters over 'A' and ';', and the two texts of
\* test_different_sql_different_checksum.
Alphabet == {65, 59}
CreateTableUsers ==
    <<67, 82, 69, 65, 84, 69, 32, 84, 65, 66, 76, 69, 32, 117, 115, 101, 114, 115, 59>>
DropTableUsers ==
    <<68, 82, 79, 80, 32, 84, 65, 66, 76, 69, 32, 117, 115, 101, 114, 115, 59>>
Texts == SeqsUpTo(Alphabet, MaxSql) \cup {CreateTableUsers, DropTableUsers}
\* Migration::new("users", 1, "test", sql), and the descriptors compared with it.
TestMigrations == {Migration("users", 1, "test", sql) : sql \in Texts}
OtherMigrations ==
    {Migration(module, version, name, sql) :
        module \in {"users", "products"}, version \in {1, 5},
        name \in {"test", "add_column"}, sql \in Texts}

\* start.elapsed().as_millis() as i32 (l.211): the measured duration, whose
\* value nothing in the runner depends on.
Elapsed == "elapsed_ms"
NotMeasured == "none"

\* Error texts the store (sqlx) reports.
StoreDown == "connection closed"
UniqueViolation == "duplicate key value violates unique constraint"

VARIABLES
    runners,        \* the MigrationRunner instances that make calls
    catalog,        \* the descriptors their callers build slices from
    tableExists,    \* store: _schema_migrations has been created
    ledger,         \* store: the bag of rows of _schema_migrations
    executed,       \* store: the (module, version)s whose SQL has taken effect
    calls,          \* calls made so far
    pc,             \* per runner: the .await it is at
    migrations,     \* per runner: the slice passed to run_migrations
    prev,           \* per runner: outcome of the call this one repeats
    applied,        \* per runner: local `applied` of run_migrations
    queue,          \* per runner: by_module.iter() flattened, in iteration order
    idx,            \* per runner: position in queue
    total_applied,  \* per runner: local total_applied
    total_skipped,  \* per runner: local total_skipped
    execution_time, \* per runner: value returned by run_migration
    runLog,         \* per runner: the SQL executions of this call, each with its outcome
    result,         \* per runner: what the call returned
    built,          \* the two descriptors whose checksum() values are compared
    checksums,      \* per such descriptor: what its checksum() calls returned so far
    ids,            \* per such descriptor: what its id() call returned
    storage,        \* InMemoryBaseRepository::storage, the HashMap<Uuid, T>
    service,        \* one UserService over one InMemoryUserRepository: its clients, the
                    \* DTOs they pass, the Uuids minted so far, the ids a delete_user
                    \* removed, and per client the call in progress (the .await it is
                    \* at, its arguments, its locals `existing` and `entity`, what it
                    \* returned, and the storage when it was made)
    uow,            \* PostgresUnitOfWork::transaction, MongoUnitOfWork::session, the
                    \* transactions and sessions the stores handed out, and the log of
                    \* the calls made with their outcomes
    base,           \* a bare InMemoryBaseRepository: inserts that returned Ok and
                    \* removes that returned true since the last clear, and the last call
    data            \* with_data: the Vec<User> supplied, whether it has returned, and
                    \* what find_all() and count() returned on the new repository

vars == <<runners, catalog, tableExists, ledger, executed, calls, pc, migrations, prev,
          applied, queue, idx, total_applied, total_skipped, execution_time,
          runLog, result, built, checksums, ids,
          storage, service, uow, base, data>>

store == <<tableExists, ledger, executed>>
locals == <<applied, queue, idx, total_applied, total_skipped, execution_time, runLog>>
descriptorVars == <<built, checksums, ids>>
\* What no call on a runner touches: who runs what, and the other components.
config == <<runners, catalog, descriptorVars, storage, service, uow, base, data>>
migrationVars == <<runners, catalog, store, calls, pc, migrations, prev, locals, result>>
\* What the calls on a descriptor, on the user service, on a unit of work, on
\* the base repository and on with_data leave alone, the storage aside.
notDescriptor == <<migrationVars, storage, service, uow, base, data>>
notUser == <<migrationVars, descriptorVars, uow, base, data>>
notUow == <<migrationVars, descriptorVars, storage, service, base, data>>
notBase == <<migrationVars, descriptorVars, service, uow, data>>
notData == <<migrationVars, descriptorVars, service, uow, base>>

\* ------------------------------------------------------------- helpers
Pair(m) == <<m.module, m.version>>
Pairs(s) == {Pair(s[i]) : i \in DOMAIN s}
Range(s) == {s[i] : i \in DOMAIN s}

None == [kind |-> "None"]
Ok == [kind |-> "Ok"]
DatabaseError(msg) == [kind |-> "DatabaseError", msg |-> msg]

\* map_err closures of the five store calls.
TableError(e) == DatabaseError("Failed to create migrations table: " \o e)
FetchError(e) == DatabaseError("Failed to fetch applied migrations: " \o e)
CheckError(e) == DatabaseError("Failed to check migration status: " \o e)
RecordError(e) == DatabaseError("Failed to record migration: " \o e)
MigrationError(m, e) == DatabaseError("Migration " \o id(m) \o " failed: " \o e)
StatusError(e) == DatabaseError("Failed to fetch migration status: " \o e)

\* The row record_migration inserts (id and applied_at, which the store
\* assigns and nothing reads back by value, are left out).
Row(m, ms) ==
    [module |-> m.module, version |-> m.version, name |-> m.name,
     checksum |-> checksum(m), execution_time_ms |-> ms]

\* The rows of (module, version) = p.
RowsOf(rows, p) == {row \in BagToSet(rows) : <<row.module, row.version>> = p}
LedgerPairs(rows) == {<<row.module, row.version>> : row \in BagToSet(rows)}

\* A ledger table created without UNIQUE(module, version).
UniqueOk_unconstrained(rows, row) == TRUE
\* UNIQUE(module, version) of the ledger table (l.91): may this row be inserted?
UniqueOk(rows, row) == RowsOf(rows, <<row.module, row.version>>) = {}

\* SELECT COUNT(*) ... WHERE module = $1 AND version = $2 (l.146-151).
CountRows(rows, m) == BagCardinality([row \in RowsOf(rows, Pair(m)) |-> rows[row]])

\* get_applied_migrations: HashMap keyed "{module}:v{version}"; of rows with
\* one key the map keeps one.
AppliedKey(row) == row.module \o ":v" \o ToString(row.version)
AppliedMap(rows) ==
    LET keys == {AppliedKey(row) : row \in BagToSet(rows)}
        kept(k) == CHOOSE row \in BagToSet(rows) : AppliedKey(row) = k
    IN [k \in keys |->
          [module |-> kept(k).module, version |-> kept(k).version,
           name |-> kept(k).name, checksum |-> kept(k).checksum]]

\* A grouping that overwrites the module's entry instead of pushing to it.
ByModule_overwriting(migs) ==
    [mod \in {migs[i].module : i \in DOMAIN migs} |->
        LET own == SelectSeq(migs, LAMBDA m : m.module = mod) IN <<own[Len(own)]>>]
\* by_module (l.233-240): module -> that module's descriptors, in the order of
\* the slice.
ByModule(migs) ==
    [mod \in {migs[i].module : i \in DOMAIN migs} |->
        SelectSeq(migs, LAMBDA m : m.module = mod)]

\* The orders in which by_module.iter() may yield the keys of the HashMap.
IterOrders(S) ==
    {o \in [1..Cardinality(S) -> S] : \A i, j \in DOMAIN o : o[i] = o[j] => i = j}

\* An iteration that stops after the first module it meets.
Flatten_first_module_only(byMod, order) ==
    IF order = <<>> THEN <<>> ELSE byMod[Head(order)]
RECURSIVE Flatten(_, _)
Flatten(byMod, order) ==
    IF order = <<>> THEN <<>>
    ELSE byMod[Head(order)] \o Flatten(byMod, Tail(order))

\* ORDER BY module, version of get_status ("products" < "users").
ModuleRank(mod) == IF mod = "products" THEN 1 ELSE 2
RowBefore(a, b) ==
    \/ ModuleRank(a.module) < ModuleRank(b.module)
    \/ a.module = b.module /\ a.version < b.version
RECURSIVE SortRows(_)
SortRows(rows) ==
    IF rows = EmptyBag THEN <<>>
    ELSE LET first == CHOOSE a \in BagToSet(rows) :
                         \A b \in BagToSet(rows) : ~RowBefore(b, a)
         IN <<first>> \o SortRows(rows (-) SetToBag({first}))

MigrationStatus(row) ==
    [module |-> row.module, version |-> row.version, name |-> row.name,
     execution_time_ms |-> row.execution_time_ms]

\* ------------------------------------------------- users: User, DTOs, errors
Clients == {1, 2}

\* Option<T>: None and Some(v).
Nothing == <<>>
Some(v) == <<v>>

\* pkg::RepositoryError variants the user module returns, and Ok values.
NotFound(uid) == [kind |-> "NotFound", id |-> uid]
AlreadyExists(uid) == [kind |-> "AlreadyExists", id |-> uid]
ValidationError(msg) == [kind |-> "ValidationError", msg |-> msg]
OkUser(u) == [kind |-> "OkUser", user |-> u]
OkBool(b) == [kind |-> "OkBool", value |-> b]
\* pkg::EntityId::nil()
NilId == 0

\* The usernames and emails callers use; one email has no '@'.
Usernames == {"alice", "bob"}
Emails == {"alice@example.com", "bob@example.com"}
NoAtEmail == "carol.example.com"
\* email.contains('@'), on the emails above.
ContainsAt(email) == email \in Emails

CreateUserDto(username, email) ==
    [username |-> username, email |-> email, full_name |-> "Full Name", age |-> Some(30)]
UpdateUserDto(username, email) ==
    [username |-> username, email |-> email, full_name |-> Nothing, age |-> Nothing]

\* The DTOs of callers that follow one another: every username with every
\* email, an empty username, an email without '@'; every combination of a
\* changed or unchanged username and email, and an emptied username.
CreateDtos ==
    {CreateUserDto(u, e) : u \in Usernames, e \in Emails}
        \cup {CreateUserDto("", "alice@example.com"), CreateUserDto("alice", NoAtEmail)}
UpdateDtos ==
    {UpdateUserDto(u, e) : u \in {Nothing} \cup {Some(n) : n \in Usernames},
                           e \in {Nothing} \cup {Some(n) : n \in Emails}}
        \cup {UpdateUserDto(Some(""), Nothing)}
\* The DTOs of callers that overlap.
CreateDtosConc == {CreateUserDto("alice", "alice@example.com")}
UpdateDtosConc ==
    {UpdateUserDto(Some("bob"), Nothing), UpdateUserDto(Nothing, Some("bob@example.com"))}

\* The Uuids callers can name: those Uuid::new_v4 hands out, in order.
Uuids == 1..MaxUsers

\* User::new(username, email, full_name, age) with the Uuid uid (created_at and
\* updated_at, which nothing reads, are left out).
User(uid, dto) ==
    [id |-> uid, username |-> dto.username, email |-> dto.email,
     full_name |-> dto.full_name, age |-> dto.age]

\* User::validate: the Err(String) it returns, or <<>> for Ok(()).
validate(user) ==
    IF user.username = "" THEN <<"Username cannot be empty">>
    ELSE IF user.email = "" \/ ~ContainsAt(user.email) THEN <<"Invalid email address">>
    ELSE IF user.full_name = "" THEN <<"Full name cannot be empty">>
    ELSE IF user.age # Nothing /\ user.age[1] > 150 THEN <<"Invalid age">>
    ELSE <<>>

\* HashMap<Uuid, User> operations.
\* A get_all that finds no entity.
Values_of_none(map) == {}
Values(map) == {map[k] : k \in DOMAIN map}
Put(map, k, v) == [i \in DOMAIN map \cup {k} |-> IF i = k THEN v ELSE map[i]]
Without(map, k) == [i \in DOMAIN map \ {k} |-> map[i]]

\* find_by_username / find_by_email: is the Option Some?
find_by_username(map, username) == \E u \in Values(map) : u.username = username
find_by_email(map, email) == \E u \in Values(map) : u.email = email

\* check_duplicate_username / check_duplicate_email: the Err, or <<>> for Ok(()).
check_duplicate_username(map, username, exclude_id) ==
    IF \E u \in Values(map) :
          u.username = username /\ (exclude_id = Nothing \/ u.id # exclude_id[1])
        THEN <<ValidationError("Username '" \o username \o "' is already taken")>>
        ELSE <<>>
check_duplicate_email(map, email, exclude_id) ==
    IF \E u \in Values(map) :
          u.email = email /\ (exclude_id = Nothing \/ u.id # exclude_id[1])
        THEN <<ValidationError("Email '" \o email \o "' is already taken")>>
        ELSE <<>>

\* No call in progress.
NoCall ==
    [pc |-> "idle", op |-> None, existing |-> Nothing, entity |-> Nothing, res |-> None,
     before |-> <<>>]
\* No user service is in use.
NoUsers == storage = <<>> /\ service = <<>>
\* InMemoryUserRepository::new() and UserService::new: an empty storage, no call
\* made, for the clients cs passing the DTOs ds.
NewUsers(cs, ds) ==
    /\ storage = <<>>
    /\ service = [clients |-> cs, dtos |-> ds, minted |-> 0, deleted |-> {},
                  calls |-> [c \in Clients |-> NoCall]]

\* ------------------------------------------------------------- initial state
NoLocals(r) ==
    /\ applied' = [applied EXCEPT ![r] = <<>>]
    /\ queue' = [queue EXCEPT ![r] = <<>>]
    /\ idx' = [idx EXCEPT ![r] = 0]
    /\ total_applied' = [total_applied EXCEPT ![r] = 0]
    /\ total_skipped' = [total_skipped EXCEPT ![r] = 0]
    /\ execution_time' = [execution_time EXCEPT ![r] = NotMeasured]
    /\ runLog' = [runLog EXCEPT ![r] = <<>>]

InitState ==
    /\ tableExists = FALSE
    /\ ledger = EmptyBag
    /\ executed = {}
    /\ calls = 0
    /\ pc = [r \in Runners |-> "idle"]
    /\ migrations = [r \in Runners |-> <<>>]
    /\ prev = [r \in Runners |-> None]
    /\ applied = [r \in Runners |-> <<>>]
    /\ queue = [r \in Runners |-> <<>>]
    /\ idx = [r \in Runners |-> 0]
    /\ total_applied = [r \in Runners |-> 0]
    /\ total_skipped = [r \in Runners |-> 0]
    /\ execution_time = [r \in Runners |-> NotMeasured]
    /\ runLog = [r \in Runners |-> <<>>]
    /\ result = [r \in Runners |-> None]

\* No descriptors are being compared.
NoneBuilt == built = <<>> /\ checksums = <<>> /\ ids = <<>>

\* No unit of work, no bare InMemoryBaseRepository and no with_data in use.
NoUnitOfWork == uow = <<>>
NoBaseRepository == base = <<>>
NoData == data = <<>>
OnlyMigrations == NoUsers /\ NoUnitOfWork /\ NoBaseRepository /\ NoData

\* One runner, its calls one after the other.
Init == runners = {1} /\ catalog = Catalog /\ InitState /\ NoneBuilt /\ OnlyMigrations
\* Two runners on the same store, their calls overlapping freely.
InitConc ==
    runners = Runners /\ catalog = CatalogConc /\ InitState /\ NoneBuilt /\ OnlyMigrations
\* No runner: two descriptors have been built and no checksum() called yet.
InitChecksum ==
    /\ runners = {} /\ catalog = {} /\ InitState
    /\ built \in {<<a, b>> : a \in TestMigrations, b \in OtherMigrations}
    /\ checksums = <<<<>>, <<>>>>
    /\ ids = <<<<>>, <<>>>>
    /\ OnlyMigrations
\* No runner and no descriptor under test.
NoMigrations == runners = {} /\ catalog = {} /\ InitState /\ NoneBuilt
\* One client of the user service, its calls one after the other.
InitUsers ==
    /\ NoMigrations
    /\ NewUsers({1}, [create |-> CreateDtos, update |-> UpdateDtos])
    /\ NoUnitOfWork /\ NoBaseRepository /\ NoData
\* Two clients of one user service, their calls overlapping freely.
InitUsersConc ==
    /\ NoMigrations
    /\ NewUsers(Clients, [create |-> CreateDtosConc, update |-> UpdateDtosConc])
    /\ NoUnitOfWork /\ NoBaseRepository /\ NoData

\* PostgresUnitOfWork::new and MongoUnitOfWork::new: no transaction, no session.
InitUow ==
    /\ NoMigrations /\ NoUsers /\ NoBaseRepository /\ NoData
    /\ uow = [transaction |-> Nothing, session |-> Nothing, begun |-> 0, log |-> <<>>]

\* The users a caller of with_data can supply, with distinct ids.
DataUsers == {User(uid, CreateUserDto(u, e)) : uid \in Uuids, u \in Usernames, e \in Emails}
DataVecs ==
    {v \in SeqsUpTo(DataUsers, MaxData) :
        \A i, j \in DOMAIN v : i # j => v[i].id # v[j].id}
\* A Vec<User> is about to be passed to with_data.
InitData ==
    /\ NoMigrations /\ NoUsers /\ NoUnitOfWork /\ NoBaseRepository
    /\ \E users \in DataVecs :
          data = [supplied |-> users, constructed |-> FALSE,
                  observed |-> [find_all |-> Nothing, count |-> Nothing]]

\* InMemoryBaseRepository::new(): an empty storage, nothing counted.
InitBase ==
    /\ NoMigrations /\ NoUsers /\ NoUnitOfWork /\ NoData
    /\ base = [inserts |-> 0, removes |-> 0,
               last |-> [op |-> "new", id |-> NilId, before |-> <<>>, result |-> Ok]]

\* ------------------------------------------------------------- the caller
Return(r, res) ==
    /\ pc' = [pc EXCEPT ![r] = "returned"]
    /\ result' = [result EXCEPT ![r] = res]

\* runner.run_migrations(&migs) on a fresh slice.
Call(r) ==
    /\ pc[r] = "idle"
    /\ calls < MaxCalls
    /\ \E migs \in Inputs(catalog) : migrations' = [migrations EXCEPT ![r] = migs]
    /\ calls' = calls + 1
    /\ pc' = [pc EXCEPT ![r] = "ensure"]
    /\ UNCHANGED <<config, store, prev, locals, result>>

\* run_migrations again right after it returned, on the same (module, version)
\* set: the same slice, or one with descriptors reordered or edited.
Recall(r) ==
    /\ pc[r] = "returned"
    /\ calls < MaxCalls
    /\ \E migs \in Inputs(catalog) :
          /\ Pairs(migs) = Pairs(migrations[r])
          /\ migrations' = [migrations EXCEPT ![r] = migs]
          /\ prev' = [prev EXCEPT ![r] = [kind |-> "Run", result |-> result[r],
                                          same |-> migs = migrations[r]]]
    /\ calls' = calls + 1
    /\ pc' = [pc EXCEPT ![r] = "ensure"]
    /\ result' = [result EXCEPT ![r] = None]
    /\ NoLocals(r)
    /\ UNCHANGED <<config, store>>

\* The caller drops the slice and the returned value.
Drop(r) ==
    /\ pc[r] \in {"returned", "status_returned"}
    /\ pc' = [pc EXCEPT ![r] = "idle"]
    /\ migrations' = [migrations EXCEPT ![r] = <<>>]
    /\ prev' = [prev EXCEPT ![r] = None]
    /\ result' = [result EXCEPT ![r] = None]
    /\ NoLocals(r)
    /\ UNCHANGED <<config, store, calls>>

\* ------------------------------------------------- MigrationRunner, step by step
\* A CREATE TABLE without IF NOT EXISTS: the store refuses the second one.
ensure_migrations_table_create_only(r, next, back) ==
    \/ /\ ~tableExists
       /\ tableExists' = TRUE
       /\ pc' = [pc EXCEPT ![r] = next]
       /\ UNCHANGED result
    \/ /\ tableExists
       /\ pc' = [pc EXCEPT ![r] = back]
       /\ result' = [result EXCEPT ![r] = TableError("relation already exists")]
       /\ UNCHANGED tableExists
    \/ /\ pc' = [pc EXCEPT ![r] = back]
       /\ result' = [result EXCEPT ![r] = TableError(StoreDown)]
       /\ UNCHANGED tableExists
\* A caller that notes the error of the DDL and carries on.
ensure_migrations_table_unpropagated(r, next, back) ==
    \/ /\ tableExists' = TRUE
       /\ pc' = [pc EXCEPT ![r] = next]
       /\ UNCHANGED result
    \/ /\ pc' = [pc EXCEPT ![r] = next]
       /\ result' = [result EXCEPT ![r] = TableError(StoreDown)]
       /\ UNCHANGED tableExists
\* A caller that goes on to read the ledger without creating the table.
ensure_migrations_table_omitted(r, next, back) ==
    /\ pc' = [pc EXCEPT ![r] = next]
    /\ UNCHANGED <<tableExists, result>>
\* ensure_migrations_table (l.81-112): CREATE TABLE IF NOT EXISTS ...; on Ok
\* the caller goes on to `next`, on Err its `?` returns the error (pc `back`).
ensure_migrations_table(r, next, back) ==
    \/ /\ tableExists' = TRUE
       /\ pc' = [pc EXCEPT ![r] = next]
       /\ UNCHANGED result
    \/ /\ pc' = [pc EXCEPT ![r] = back]
       /\ result' = [result EXCEPT ![r] = TableError(StoreDown)]
       /\ UNCHANGED tableExists

\* A comparison off by one in is_applied.
is_applied_more_than_one(rows, m) == CountRows(rows, m) > 1
\* is_applied (l.145-160): a fresh COUNT(*) on the store, count.0 > 0.
is_applied(rows, m) == CountRows(rows, m) > 0

\* run_migrations l.224
RunEnsure(r) ==
    /\ pc[r] = "ensure"
    /\ ensure_migrations_table(r, "load", "returned")
    /\ UNCHANGED <<config, ledger, executed, calls, migrations, prev, locals>>

\* The order in which the two for loops of l.245-264 visit the descriptors.
Grouped(migs) == {Flatten(ByModule(migs), order) : order \in IterOrders(DOMAIN ByModule(migs))}

\* run_migrations l.227-243: get_applied_migrations, then group by module.
RunLoad(r) ==
    /\ pc[r] = "load"
    /\ \/ /\ tableExists
          /\ applied' = [applied EXCEPT ![r] = AppliedMap(ledger)]
          /\ \E q \in Grouped(migrations[r]) : queue' = [queue EXCEPT ![r] = q]
          /\ idx' = [idx EXCEPT ![r] = 1]
          /\ total_applied' = [total_applied EXCEPT ![r] = 0]
          /\ total_skipped' = [total_skipped EXCEPT ![r] = 0]
          /\ IF migrations[r] = <<>>
                THEN Return(r, Ok)
                ELSE pc' = [pc EXCEPT ![r] = "check"] /\ UNCHANGED result
          /\ UNCHANGED <<execution_time, runLog>>
       \/ /\ Return(r, FetchError(StoreDown))
          /\ UNCHANGED locals
    /\ UNCHANGED <<config, store, calls, migrations, prev>>

\* The for loops of l.245-264 move on to the next descriptor, or run_migrations
\* returns Ok(()) after the last one.
NextMigration(r) ==
    /\ idx' = [idx EXCEPT ![r] = idx[r] + 1]
    /\ IF idx[r] = Len(queue[r])
          THEN Return(r, Ok)
          ELSE pc' = [pc EXCEPT ![r] = "check"] /\ UNCHANGED result

\* A skip decision taken from the map loaded at l.227 instead of is_applied.
RunCheck_loaded(r) ==
    /\ pc[r] = "check"
    /\ \/ /\ AppliedKey(queue[r][idx[r]]) \in DOMAIN applied[r]
          /\ total_skipped' = [total_skipped EXCEPT ![r] = total_skipped[r] + 1]
          /\ NextMigration(r)
          /\ UNCHANGED <<total_applied>>
       \/ /\ AppliedKey(queue[r][idx[r]]) \notin DOMAIN applied[r]
          /\ pc' = [pc EXCEPT ![r] = "exec"]
          /\ UNCHANGED <<result, idx, total_skipped, total_applied>>
    /\ UNCHANGED <<config, store, calls, migrations, prev, applied, queue,
                   execution_time, runLog>>
\* A skip branch that compares the recorded checksum with checksum() and
\* refuses an edited descriptor.
RunCheck_checksum_verified(r) ==
    LET m == queue[r][idx[r]] IN
    /\ pc[r] = "check"
    /\ \/ /\ is_applied(ledger, m)
          /\ \A row \in RowsOf(ledger, Pair(m)) : row.checksum = checksum(m)
          /\ total_skipped' = [total_skipped EXCEPT ![r] = total_skipped[r] + 1]
          /\ NextMigration(r)
          /\ UNCHANGED <<total_applied>>
       \/ /\ is_applied(ledger, m)
          /\ \E row \in RowsOf(ledger, Pair(m)) : row.checksum # checksum(m)
          /\ Return(r, DatabaseError("Migration " \o id(m) \o " checksum mismatch"))
          /\ UNCHANGED <<idx, total_skipped, total_applied>>
       \/ /\ ~is_applied(ledger, m)
          /\ pc' = [pc EXCEPT ![r] = "exec"]
          /\ UNCHANGED <<result, idx, total_skipped, total_applied>>
       \/ /\ Return(r, CheckError(StoreDown))
          /\ UNCHANGED <<idx, total_skipped, total_applied>>
    /\ UNCHANGED <<config, store, calls, migrations, prev, applied, queue,
                   execution_time, runLog>>
\* run_migrations l.249-258: is_applied, and the skip branch.
RunCheck(r) ==
    /\ pc[r] = "check"
    /\ \/ /\ is_applied(ledger, queue[r][idx[r]])
          /\ total_skipped' = [total_skipped EXCEPT ![r] = total_skipped[r] + 1]
          /\ NextMigration(r)
          /\ UNCHANGED <<total_applied>>
       \/ /\ ~is_applied(ledger, queue[r][idx[r]])
          /\ pc' = [pc EXCEPT ![r] = "exec"]
          /\ UNCHANGED <<result, idx, total_skipped, total_applied>>
       \/ /\ Return(r, CheckError(StoreDown))
          /\ UNCHANGED <<idx, total_skipped, total_applied>>
    /\ UNCHANGED <<config, store, calls, migrations, prev, applied, queue,
                   execution_time, runLog>>

\* A run_migration whose error is not propagated: the loop goes on to record.
run_migration_unpropagated(r) ==
    LET m == queue[r][idx[r]] IN
    \/ /\ executed' = executed \cup {Pair(m)}
       /\ runLog' = [runLog EXCEPT ![r] = Append(@, [migration |-> m, ok |-> TRUE])]
       /\ execution_time' = [execution_time EXCEPT ![r] = Elapsed]
       /\ pc' = [pc EXCEPT ![r] = "record"]
       /\ UNCHANGED <<result, idx>>
    \/ /\ runLog' = [runLog EXCEPT ![r] = Append(@, [migration |-> m, ok |-> FALSE])]
       /\ pc' = [pc EXCEPT ![r] = "record"]
       /\ UNCHANGED <<executed, execution_time, idx, result>>
\* A run_migration whose error is swallowed: the loop goes on to the next descriptor.
run_migration_swallowed(r) ==
    LET m == queue[r][idx[r]] IN
    \/ /\ executed' = executed \cup {Pair(m)}
       /\ runLog' = [runLog EXCEPT ![r] = Append(@, [migration |-> m, ok |-> TRUE])]
       /\ execution_time' = [execution_time EXCEPT ![r] = Elapsed]
       /\ pc' = [pc EXCEPT ![r] = "record"]
       /\ UNCHANGED <<result, idx>>
    \/ /\ runLog' = [runLog EXCEPT ![r] = Append(@, [migration |-> m, ok |-> FALSE])]
       /\ NextMigration(r)
       /\ UNCHANGED <<executed, execution_time>>
\* A run_migration whose error names the first descriptor of the call instead
\* of the one that failed.
run_migration_misreported(r) ==
    LET m == queue[r][idx[r]] IN
    \/ /\ executed' = executed \cup {Pair(m)}
       /\ runLog' = [runLog EXCEPT ![r] = Append(@, [migration |-> m, ok |-> TRUE])]
       /\ execution_time' = [execution_time EXCEPT ![r] = Elapsed]
       /\ pc' = [pc EXCEPT ![r] = "record"]
       /\ UNCHANGED <<result, idx>>
    \/ /\ runLog' = [runLog EXCEPT ![r] = Append(@, [migration |-> m, ok |-> FALSE])]
       /\ Return(r, MigrationError(queue[r][1], StoreDown))
       /\ UNCHANGED <<executed, execution_time, idx>>
\* A loop that executes the SQL and moves on, leaving the inserts for later.
run_migration_insert_deferred(r) ==
    LET m == queue[r][idx[r]] IN
    \/ /\ executed' = executed \cup {Pair(m)}
       /\ runLog' = [runLog EXCEPT ![r] = Append(@, [migration |-> m, ok |-> TRUE])]
       /\ execution_time' = [execution_time EXCEPT ![r] = Elapsed]
       /\ NextMigration(r)
    \/ /\ runLog' = [runLog EXCEPT ![r] = Append(@, [migration |-> m, ok |-> FALSE])]
       /\ Return(r, MigrationError(m, StoreDown))
       /\ UNCHANGED <<executed, execution_time, idx>>
\* run_migration (l.191-219), called at l.259: the SQL takes effect, or fails
\* and `?` returns the error.
run_migration(r) ==
    LET m == queue[r][idx[r]] IN
    \/ /\ executed' = executed \cup {Pair(m)}
       /\ runLog' = [runLog EXCEPT ![r] = Append(@, [migration |-> m, ok |-> TRUE])]
       /\ execution_time' = [execution_time EXCEPT ![r] = Elapsed]
       /\ pc' = [pc EXCEPT ![r] = "record"]
       /\ UNCHANGED <<result, idx>>
    \/ /\ runLog' = [runLog EXCEPT ![r] = Append(@, [migration |-> m, ok |-> FALSE])]
       /\ Return(r, MigrationError(m, StoreDown))
       /\ UNCHANGED <<executed, execution_time, idx>>

RunExec(r) ==
    /\ pc[r] = "exec"
    /\ run_migration(r)
    /\ UNCHANGED <<config, tableExists, ledger, calls, migrations, prev, applied,
                   queue, total_applied, total_skipped>>

\* An INSERT that ignores a conflict (ON CONFLICT DO NOTHING) and reports Ok.
record_migration_ignoring_conflict(r) ==
    LET row == Row(queue[r][idx[r]], execution_time[r]) IN
    \/ /\ ledger' = IF UniqueOk(ledger, row) THEN ledger (+) SetToBag({row}) ELSE ledger
       /\ total_applied' = [total_applied EXCEPT ![r] = total_applied[r] + 1]
       /\ NextMigration(r)
    \/ /\ Return(r, RecordError(StoreDown))
       /\ UNCHANGED <<ledger, total_applied, idx>>
\* A loop that forgets total_applied += 1 (l.261).
record_migration_uncounted(r) ==
    LET row == Row(queue[r][idx[r]], execution_time[r]) IN
    \/ /\ UniqueOk(ledger, row)
       /\ ledger' = ledger (+) SetToBag({row})
       /\ NextMigration(r)
       /\ UNCHANGED total_applied
    \/ /\ ~UniqueOk(ledger, row)
       /\ Return(r, RecordError(UniqueViolation))
       /\ UNCHANGED <<ledger, total_applied, idx>>
    \/ /\ Return(r, RecordError(StoreDown))
       /\ UNCHANGED <<ledger, total_applied, idx>>
\* record_migration (l.163-188), called at l.260: the INSERT, subject to
\* UNIQUE(module, version); then total_applied += 1.
record_migration(r) ==
    LET row == Row(queue[r][idx[r]], execution_time[r]) IN
    \/ /\ UniqueOk(ledger, row)
       /\ ledger' = ledger (+) SetToBag({row})
       /\ total_applied' = [total_applied EXCEPT ![r] = total_applied[r] + 1]
       /\ NextMigration(r)
    \/ /\ ~UniqueOk(ledger, row)
       /\ Return(r, RecordError(UniqueViolation))
       /\ UNCHANGED <<ledger, total_applied, idx>>
    \/ /\ Return(r, RecordError(StoreDown))
       /\ UNCHANGED <<ledger, total_applied, idx>>

RunRecord(r) ==
    /\ pc[r] = "record"
    /\ record_migration(r)
    /\ UNCHANGED <<config, tableExists, executed, calls, migrations, prev,
                   applied, queue, total_skipped, execution_time, runLog>>

\* ------------------------------------------------------------- get_status
StatusCall(r) ==
    /\ pc[r] = "idle"
    /\ calls < MaxCalls
    /\ calls' = calls + 1
    /\ pc' = [pc EXCEPT ![r] = "status_ensure"]
    /\ UNCHANGED <<config, store, migrations, prev, locals, result>>

StatusEnsure(r) ==
    /\ pc[r] = "status_ensure"
    /\ ensure_migrations_table(r, "status_select", "status_returned")
    /\ UNCHANGED <<config, ledger, executed, calls, migrations, prev, locals>>

\* A SELECT with ORDER BY module DESC, version DESC.
get_status_descending(rows) ==
    LET sorted == SortRows(rows)
        n == Len(sorted)
    IN [kind |-> "Statuses",
        statuses |-> [i \in DOMAIN sorted |-> MigrationStatus(sorted[n + 1 - i])]]
\* get_status l.283-313
get_status(rows) ==
    LET sorted == SortRows(rows)
    IN [kind |-> "Statuses",
        statuses |-> [i \in DOMAIN sorted |-> MigrationStatus(sorted[i])]]

StatusSelect(r) ==
    /\ pc[r] = "status_select"
    /\ \/ tableExists /\ result' = [result EXCEPT ![r] = get_status(ledger)]
       \/ result' = [result EXCEPT ![r] = StatusError(StoreDown)]
    /\ pc' = [pc EXCEPT ![r] = "status_returned"]
    /\ UNCHANGED <<config, store, calls, migrations, prev, locals>>

Next ==
    \/ \E r \in runners : Call(r)
    \/ \E r \in runners : Recall(r)
    \/ \E r \in runners : Drop(r)
    \/ \E r \in runners : RunEnsure(r)
    \/ \E r \in runners : RunLoad(r)
    \/ \E r \in runners : RunCheck(r)
    \/ \E r \in runners : RunExec(r)
    \/ \E r \in runners : RunRecord(r)
    \/ \E r \in runners : StatusCall(r)
    \/ \E r \in runners : StatusEnsure(r)
    \/ \E r \in runners : StatusSelect(r)

\* ------------------------------------------------------ checksum() on its own
\* built[k].checksum(), as the tests call it (l.340-341, l.362).
Checksum(k) ==
    /\ Len(checksums[k]) < MaxSums
    /\ checksums' = [checksums EXCEPT ![k] = Append(@, checksum(built[k]))]
    /\ UNCHANGED <<notDescriptor, built, ids>>

\* built[k].id(), as test_migration_id calls it (l.351, l.354).
Id(k) ==
    /\ ids[k] = <<>>
    /\ ids' = [ids EXCEPT ![k] = <<id(built[k])>>]
    /\ UNCHANGED <<notDescriptor, built, checksums>>

NextChecksum ==
    \/ \E k \in DOMAIN built : Checksum(k)
    \/ \E k \in DOMAIN built : Id(k)

\* ------------------------------------ UserService over InMemoryUserRepository
\* The call of client c becomes `call`; nothing else of the service changes.
UStep(c, call) == service' = [service EXCEPT !.calls[c] = call]
UReturn(c, call, res) == UStep(c, [call EXCEPT !.pc = "returned", !.res = res])
UGoto(c, call, next) == UStep(c, [call EXCEPT !.pc = next])
\* A store step either returns the Err in `err` or goes on to `next`.
UCheck(c, call, err, next) ==
    IF err # <<>> THEN UReturn(c, call, err[1]) ELSE UGoto(c, call, next)
\* A call that is being made: its arguments, and the storage it starts from.
Started(op, first) ==
    [pc |-> first, op |-> op, existing |-> Nothing, entity |-> Nothing, res |-> None,
     before |-> storage]

\* service.create_user(dto). The Uuid that User::new will draw (l.121 of the
\* repository) is fixed here: it is fresh whenever it is drawn.
CreateUserCall(c) ==
    /\ service.calls[c].pc = "idle"
    /\ service.minted < MaxUsers
    /\ \E dto \in service.dtos.create :
          service' = [service EXCEPT
              !.minted = @ + 1,
              !.calls[c] = Started([kind |-> "create", dto |-> dto, id |-> service.minted + 1],
                                   "create_find_username")]
    /\ UNCHANGED <<notUser, storage>>

\* UserService::create_user l.26-31
CreateFindUsername(c) ==
    LET call == service.calls[c] IN
    /\ call.pc = "create_find_username"
    /\ IF find_by_username(storage, call.op.dto.username)
          THEN UReturn(c, call, ValidationError("Username '" \o call.op.dto.username
                                                  \o "' is already taken"))
          ELSE UGoto(c, call, "create_find_email")
    /\ UNCHANGED <<notUser, storage>>

\* UserService::create_user l.34-42, then UserRepository::create_user
\* (User::new) and the validate of save.
CreateFindEmail(c) ==
    LET call == service.calls[c]
        user == User(call.op.id, call.op.dto)
        saving == [call EXCEPT !.entity = Some(user)]
    IN
    /\ call.pc = "create_find_email"
    /\ IF find_by_email(storage, call.op.dto.email)
          THEN UReturn(c, call, ValidationError("Email '" \o call.op.dto.email
                                                  \o "' is already registered"))
          ELSE IF validate(user) # <<>>
              THEN UReturn(c, saving, ValidationError(validate(user)[1]))
              ELSE UGoto(c, saving, "save_check_username")
    /\ UNCHANGED <<notUser, storage>>

\* save l.67
SaveCheckUsername(c) ==
    LET call == service.calls[c] IN
    /\ call.pc = "save_check_username"
    /\ UCheck(c, call, check_duplicate_username(storage, call.entity[1].username, Nothing),
              "save_check_email")
    /\ UNCHANGED <<notUser, storage>>

\* save l.68
SaveCheckEmail(c) ==
    LET call == service.calls[c] IN
    /\ call.pc = "save_check_email"
    /\ UCheck(c, call, check_duplicate_email(storage, call.entity[1].email, Nothing),
              "save_insert")
    /\ UNCHANGED <<notUser, storage>>

\* An insert that overwrites what is stored under the id.
insert_overwriting(map, uid, e) == [storage |-> Put(map, uid, e), result |-> Ok]
\* InMemoryBaseRepository::insert (l.42-51): the new storage and the result.
insert(map, uid, e) ==
    IF uid \in DOMAIN map
        THEN [storage |-> map, result |-> AlreadyExists(NilId)]
        ELSE [storage |-> Put(map, uid, e), result |-> Ok]

\* save l.70-71
SaveInsert(c) ==
    LET call == service.calls[c]
        done == insert(storage, call.entity[1].id, call.entity[1])
    IN
    /\ call.pc = "save_insert"
    /\ storage' = done.storage
    /\ UReturn(c, call, IF done.result = Ok THEN OkUser(call.entity[1]) ELSE done.result)
    /\ UNCHANGED notUser

\* service.update_user(id, dto)
UpdateUserCall(c) ==
    /\ service.calls[c].pc = "idle"
    /\ \E uid \in Uuids, dto \in service.dtos.update :
          UStep(c, Started([kind |-> "update", dto |-> dto, id |-> uid], "update_find"))
    /\ UNCHANGED <<notUser, storage>>

\* The conditions of l.68-69 and l.80-81: the dto changes the username / email.
ChangesUsername(dto, user) == dto.username # Nothing /\ dto.username[1] # user.username
ChangesEmail(dto, user) == dto.email # Nothing /\ dto.email[1] # user.email

\* UserService::update_user l.61-65
UpdateFind(c) ==
    LET call == service.calls[c] IN
    /\ call.pc = "update_find"
    /\ IF call.op.id \notin DOMAIN storage
          THEN UReturn(c, call, NotFound(call.op.id))
          ELSE UGoto(c, [call EXCEPT !.existing = Some(storage[call.op.id])],
                     IF ChangesUsername(call.op.dto, storage[call.op.id])
                         THEN "update_find_username"
                     ELSE IF ChangesEmail(call.op.dto, storage[call.op.id])
                         THEN "update_find_email"
                     ELSE "update_refind")
    /\ UNCHANGED <<notUser, storage>>

\* UserService::update_user l.70-75
UpdateFindUsername(c) ==
    LET call == service.calls[c] IN
    /\ call.pc = "update_find_username"
    /\ IF find_by_username(storage, call.op.dto.username[1])
          THEN UReturn(c, call, ValidationError("Username '" \o call.op.dto.username[1]
                                                  \o "' is already taken"))
          ELSE UGoto(c, call, IF ChangesEmail(call.op.dto, call.existing[1])
                                THEN "update_find_email" ELSE "update_refind")
    /\ UNCHANGED <<notUser, storage>>

\* UserService::update_user l.82-87
UpdateFindEmail(c) ==
    LET call == service.calls[c] IN
    /\ call.pc = "update_find_email"
    /\ IF find_by_email(storage, call.op.dto.email[1])
          THEN UReturn(c, call, ValidationError("Email '" \o call.op.dto.email[1]
                                                  \o "' is already registered"))
          ELSE UGoto(c, call, "update_refind")
    /\ UNCHANGED <<notUser, storage>>

\* UserRepository::update_user l.131-142: the fields the dto carries replace the user's.
Apply(dto, user) ==
    [id |-> user.id,
     username |-> IF dto.username # Nothing THEN dto.username[1] ELSE user.username,
     email |-> IF dto.email # Nothing THEN dto.email[1] ELSE user.email,
     full_name |-> IF dto.full_name # Nothing THEN dto.full_name[1] ELSE user.full_name,
     age |-> IF dto.age # Nothing THEN dto.age ELSE user.age]

\* UserRepository::update_user l.126-144 (find_by_id again), and the validate
\* of update (l.75).
UpdateRefind(c) ==
    LET call == service.calls[c] IN
    /\ call.pc = "update_refind"
    /\ IF call.op.id \notin DOMAIN storage
          THEN UReturn(c, call, NotFound(call.op.id))
          ELSE LET user == Apply(call.op.dto, storage[call.op.id])
                   updating == [call EXCEPT !.entity = Some(user)]
               IN IF validate(user) # <<>>
                      THEN UReturn(c, updating, ValidationError(validate(user)[1]))
                      ELSE UGoto(c, updating, "update_check_username")
    /\ UNCHANGED <<notUser, storage>>

\* update l.77
UpdateCheckUsername(c) ==
    LET call == service.calls[c] IN
    /\ call.pc = "update_check_username"
    /\ UCheck(c, call,
              check_duplicate_username(storage, call.entity[1].username, Some(call.op.id)),
              "update_check_email")
    /\ UNCHANGED <<notUser, storage>>

\* update l.78
UpdateCheckEmail(c) ==
    LET call == service.calls[c] IN
    /\ call.pc = "update_check_email"
    /\ UCheck(c, call,
              check_duplicate_email(storage, call.entity[1].email, Some(call.op.id)),
              "update_entity")
    /\ UNCHANGED <<notUser, storage>>

\* InMemoryBaseRepository::update_entity (l.63-70): the new storage and the result.
update_entity(map, uid, e) ==
    IF uid \notin DOMAIN map
        THEN [storage |-> map, result |-> NotFound(NilId)]
        ELSE [storage |-> Put(map, uid, e), result |-> OkUser(e)]

\* update l.80
UpdateEntity(c) ==
    LET call == service.calls[c]
        done == update_entity(storage, call.op.id, call.entity[1])
    IN
    /\ call.pc = "update_entity"
    /\ storage' = done.storage
    /\ UReturn(c, call, done.result)
    /\ UNCHANGED notUser

\* service.delete_user(id)
DeleteUserCall(c) ==
    /\ service.calls[c].pc = "idle"
    /\ \E uid \in Uuids : UStep(c, Started([kind |-> "delete", id |-> uid], "delete_exists"))
    /\ UNCHANGED <<notUser, storage>>

\* UserService::delete_user l.97-100 (exists -> contains)
DeleteExists(c) ==
    LET call == service.calls[c] IN
    /\ call.pc = "delete_exists"
    /\ IF call.op.id \notin DOMAIN storage
          THEN UReturn(c, call, NotFound(call.op.id))
          ELSE UGoto(c, call, "delete_remove")
    /\ UNCHANGED <<notUser, storage>>

\* A remove that reports the entity without taking it out.
remove_reporting_only(map, uid) ==
    [storage |-> map, result |-> OkBool(uid \in DOMAIN map)]
\* InMemoryBaseRepository::remove (l.72-75): the new storage and the result.
remove(map, uid) ==
    [storage |-> Without(map, uid), result |-> OkBool(uid \in DOMAIN map)]

\* UserService::delete_user l.102 (delete -> remove)
DeleteRemove(c) ==
    LET call == service.calls[c]
        done == remove(storage, call.op.id)
    IN
    /\ call.pc = "delete_remove"
    /\ storage' = done.storage
    /\ service' = [service EXCEPT
          !.deleted = IF done.result.value THEN @ \cup {call.op.id} ELSE @,
          !.calls[c] = [call EXCEPT !.pc = "returned", !.res = done.result]]
    /\ UNCHANGED notUser

\* service.get_user(id)
GetUserCall(c) ==
    /\ service.calls[c].pc = "idle"
    /\ \E uid \in Uuids : UStep(c, Started([kind |-> "get", id |-> uid], "get_find"))
    /\ UNCHANGED <<notUser, storage>>

\* UserService::get_user l.46-51
GetFind(c) ==
    LET call == service.calls[c] IN
    /\ call.pc = "get_find"
    /\ UReturn(c, call, IF call.op.id \in DOMAIN storage
                          THEN OkUser(storage[call.op.id]) ELSE NotFound(call.op.id))
    /\ UNCHANGED <<notUser, storage>>

\* The caller drops what the call returned.
UDrop(c) ==
    /\ service.calls[c].pc = "returned"
    /\ UStep(c, NoCall)
    /\ UNCHANGED <<notUser, storage>>

NextUsers ==
    \/ \E c \in service.clients : CreateUserCall(c)
    \/ \E c \in service.clients : CreateFindUsername(c)
    \/ \E c \in service.clients : CreateFindEmail(c)
    \/ \E c \in service.clients : SaveCheckUsername(c)
    \/ \E c \in service.clients : SaveCheckEmail(c)
    \/ \E c \in service.clients : SaveInsert(c)
    \/ \E c \in service.clients : UpdateUserCall(c)
    \/ \E c \in service.clients : UpdateFind(c)
    \/ \E c \in service.clients : UpdateFindUsername(c)
    \/ \E c \in service.clients : UpdateFindEmail(c)
    \/ \E c \in service.clients : UpdateRefind(c)
    \/ \E c \in service.clients : UpdateCheckUsername(c)
    \/ \E c \in service.clients : UpdateCheckEmail(c)
    \/ \E c \in service.clients : UpdateEntity(c)
    \/ \E c \in service.clients : DeleteUserCall(c)
    \/ \E c \in service.clients : DeleteExists(c)
    \/ \E c \in service.clients : DeleteRemove(c)
    \/ \E c \in service.clients : GetUserCall(c)
    \/ \E c \in service.clients : GetFind(c)
    \/ \E c \in service.clients : UDrop(c)

\* ----------------------------------- PostgresUnitOfWork and MongoUnitOfWork
InternalError(msg) == [kind |-> "InternalError", msg |-> msg]

\* PostgresUnitOfWork::begin: the new `transaction` and the result. `ok` is
\* whether pool.begin() succeeded, n the transaction it then hands out.
postgres_begin(tx, ok, n) ==
    IF tx # Nothing
        THEN [transaction |-> tx, result |-> InternalError("Transaction already started")]
    ELSE IF ~ok THEN [transaction |-> Nothing, result |-> DatabaseError(StoreDown)]
    ELSE [transaction |-> Some(n), result |-> Ok]

\* A commit that puts the transaction back when the store fails it.
postgres_commit_keeping_failed(tx, ok) ==
    IF tx # Nothing
        THEN [transaction |-> IF ok THEN Nothing ELSE tx,
              result |-> IF ok THEN Ok ELSE DatabaseError(StoreDown)]
        ELSE [transaction |-> Nothing,
              result |-> InternalError("No active transaction to commit")]
\* PostgresUnitOfWork::commit: self.transaction.take(), then tx.commit().
postgres_commit(tx, ok) ==
    IF tx # Nothing
        THEN [transaction |-> Nothing,
              result |-> IF ok THEN Ok ELSE DatabaseError(StoreDown)]
        ELSE [transaction |-> Nothing,
              result |-> InternalError("No active transaction to commit")]

\* PostgresUnitOfWork::rollback: self.transaction.take(), then tx.rollback().
postgres_rollback(tx, ok) ==
    IF tx # Nothing
        THEN [transaction |-> Nothing,
              result |-> IF ok THEN Ok ELSE DatabaseError(StoreDown)]
        ELSE [transaction |-> Nothing,
              result |-> InternalError("No active transaction to rollback")]

\* MongoUnitOfWork::begin: the new `session` and the result. The session is
\* stored (l.39) before start_transaction is awaited (l.42-47).
mongo_begin(s, session_ok, transaction_ok, n) ==
    IF s # Nothing
        THEN [session |-> s, result |-> InternalError("Transaction already started")]
    ELSE IF ~session_ok THEN [session |-> Nothing, result |-> DatabaseError(StoreDown)]
    ELSE IF ~transaction_ok
        THEN [session |-> Some([id |-> n, in_transaction |-> FALSE]),
              result |-> DatabaseError(StoreDown)]
    ELSE [session |-> Some([id |-> n, in_transaction |-> TRUE]), result |-> Ok]

\* MongoUnitOfWork::commit: self.session.take(), then commit_transaction(),
\* whose answer `ok` is the driver's.
mongo_commit(s, ok) ==
    IF s # Nothing
        THEN [session |-> Nothing, result |-> IF ok THEN Ok ELSE DatabaseError(StoreDown)]
        ELSE [session |-> Nothing,
              result |-> InternalError("No active transaction to commit")]

\* MongoUnitOfWork::rollback: self.session.take(), then abort_transaction().
mongo_rollback(s, ok) ==
    IF s # Nothing
        THEN [session |-> Nothing, result |-> IF ok THEN Ok ELSE DatabaseError(StoreDown)]
        ELSE [session |-> Nothing,
              result |-> InternalError("No active transaction to rollback")]

\* A call on a unit of work has returned: it joins the log. &mut self keeps
\* the calls on one unit of work from overlapping.
Logged(name, op, was, is, res) ==
    Append(uow.log, [uow |-> name, op |-> op, before |-> was, after |-> is, result |-> res])

PostgresBegin ==
    \E ok \in BOOLEAN :
        LET done == postgres_begin(uow.transaction, ok, uow.begun + 1) IN
        /\ Len(uow.log) < MaxOps
        /\ uow' = [uow EXCEPT
              !.transaction = done.transaction,
              !.begun = IF done.result = Ok THEN @ + 1 ELSE @,
              !.log = Logged("postgres", "begin", uow.transaction, done.transaction,
                             done.result)]
        /\ UNCHANGED notUow

PostgresCommit ==
    \E ok \in BOOLEAN :
        LET done == postgres_commit(uow.transaction, ok) IN
        /\ Len(uow.log) < MaxOps
        /\ uow' = [uow EXCEPT
              !.transaction = done.transaction,
              !.log = Logged("postgres", "commit", uow.transaction, done.transaction,
                             done.result)]
        /\ UNCHANGED notUow

PostgresRollback ==
    \E ok \in BOOLEAN :
        LET done == postgres_rollback(uow.transaction, ok) IN
        /\ Len(uow.log) < MaxOps
        /\ uow' = [uow EXCEPT
              !.transaction = done.transaction,
              !.log = Logged("postgres", "rollback", uow.transaction, done.transaction,
                             done.result)]
        /\ UNCHANGED notUow

MongoBegin ==
    \E session_ok, transaction_ok \in BOOLEAN :
        LET done == mongo_begin(uow.session, session_ok, transaction_ok, uow.begun + 1) IN
        /\ Len(uow.log) < MaxOps
        /\ uow' = [uow EXCEPT
              !.session = done.session,
              !.begun = IF uow.session = Nothing /\ done.session # Nothing THEN @ + 1 ELSE @,
              !.log = Logged("mongo", "begin", uow.session, done.session, done.result)]
        /\ UNCHANGED notUow

MongoCommit ==
    \E ok \in BOOLEAN :
        LET done == mongo_commit(uow.session, ok) IN
        /\ Len(uow.log) < MaxOps
        /\ uow' = [uow EXCEPT
              !.session = done.session,
              !.log = Logged("mongo", "commit", uow.session, done.session, done.result)]
        /\ UNCHANGED notUow

MongoRollback ==
    \E ok \in BOOLEAN :
        LET done == mongo_rollback(uow.session, ok) IN
        /\ Len(uow.log) < MaxOps
        /\ uow' = [uow EXCEPT
              !.session = done.session,
              !.log = Logged("mongo", "rollback", uow.session, done.session, done.result)]
        /\ UNCHANGED notUow

NextUow ==
    \/ PostgresBegin
    \/ PostgresCommit
    \/ PostgresRollback
    \/ MongoBegin
    \/ MongoCommit
    \/ MongoRollback

\* ------------------------------------------- InMemoryUserRepository::with_data
\* InMemoryUserRepository::with_data(users): the storage of the repository it
\* returns. `users` is not read; the base is InMemoryBaseRepository::new().
with_data(users) == <<>>

WithData ==
    /\ ~data.constructed
    /\ data' = [data EXCEPT !.constructed = TRUE]
    /\ storage' = with_data(data.supplied)
    /\ UNCHANGED notData

\* find_all() -> base.get_all(), on the repository just constructed.
FindAll ==
    /\ data.constructed /\ data.observed.find_all = Nothing
    /\ data' = [data EXCEPT !.observed.find_all = Some(Values(storage))]
    /\ UNCHANGED <<notData, storage>>

\* count() -> base.count_all() (storage.len()), on the repository just constructed.
Count ==
    /\ data.constructed /\ data.observed.count = Nothing
    /\ data' = [data EXCEPT !.observed.count = Some(Cardinality(DOMAIN storage))]
    /\ UNCHANGED <<notData, storage>>

NextData ==
    \/ WithData
    \/ FindAll
    \/ Count

\* --------------------------------------------------- InMemoryBaseRepository
\* The entities callers store; ids are Uuids.
Entities == {"a", "b"}

\* Every operation holds the RwLock from its first to its last statement, so
\* each is one step. The call that has returned is kept as base.last.
Done(op, uid, res) == [op |-> op, id |-> uid, before |-> storage, result |-> res]

Insert ==
    \E uid \in Uuids, e \in Entities :
        LET done == insert(storage, uid, e) IN
        /\ done.result = Ok => base.inserts < MaxInserts
        /\ storage' = done.storage
        /\ base' = [base EXCEPT
              !.inserts = IF done.result = Ok THEN @ + 1 ELSE @,
              !.last = Done("insert", uid, done.result)]
        /\ UNCHANGED notBase

UpdateEntityCall ==
    \E uid \in Uuids, e \in Entities :
        LET done == update_entity(storage, uid, e) IN
        /\ storage' = done.storage
        /\ base' = [base EXCEPT !.last = Done("update_entity", uid, done.result)]
        /\ UNCHANGED notBase

Remove ==
    \E uid \in Uuids :
        LET done == remove(storage, uid) IN
        /\ storage' = done.storage
        /\ base' = [base EXCEPT
              !.removes = IF done.result.value THEN @ + 1 ELSE @,
              !.last = Done("remove", uid, done.result)]
        /\ UNCHANGED notBase

\* InMemoryBaseRepository::count_all: storage.len()
count_all(map) == Cardinality(DOMAIN map)

CountAll ==
    /\ base' = [base EXCEPT !.last = Done("count_all", NilId, count_all(storage))]
    /\ UNCHANGED <<notBase, storage>>

\* InMemoryBaseRepository::clear: storage.clear(); the counts start over.
Clear ==
    /\ storage' = <<>>
    /\ base' = [inserts |-> 0, removes |-> 0, last |-> Done("clear", NilId, Ok)]
    /\ UNCHANGED notBase

NextBase ==
    \/ Insert
    \/ UpdateEntityCall
    \/ Remove
    \/ CountAll
    \/ Clear

Spec == Init /\ [][Next]_vars
SpecUsers == InitUsers /\ [][NextUsers]_vars
SpecUsersConc == InitUsersConc /\ [][NextUsers]_vars
SpecUow == InitUow /\ [][NextUow]_vars
SpecData == InitData /\ [][NextData]_vars
SpecBase == InitBase /\ [][NextBase]_vars
SpecChecksum == InitChecksum /\ [][NextChecksum]_vars
SpecConc == InitConc /\ [][Next]_vars

\* ------------------------------------------------------------- properties
\* The descriptors whose SQL this call of r executed successfully, in order.
Executed(r) == SelectSeq(runLog[r], LAMBDA e : e.ok)
ExecutedPairs(r) == {Pair(runLog[r][i].migration) : i \in {j \in DOMAIN runLog[r] : runLog[r][j].ok}}
\* The (module, version)s that were in the ledger when this call of r loaded it.
LoadedPairs(r) == {<<applied[r][k].module, applied[r][k].version>> : k \in DOMAIN applied[r]}
\* r is inside run_migrations, past the grouping of l.233-240.
InLoop(r) == pc[r] \in {"check", "exec", "record"}
Looped(r) == InLoop(r) \/ (pc[r] = "returned" /\ idx[r] >= 1)
ReturnedOk(r) == pc[r] = "returned" /\ result[r] = Ok

\* C1: of two versions of one module that a call executes, the lower one is
\* executed first, whatever their order in the slice.
C1_AscendingVersionOrder ==
    \A r \in Runners : \A i, j \in DOMAIN Executed(r) :
        (/\ i < j
         /\ Executed(r)[i].migration.module = Executed(r)[j].migration.module)
        => Executed(r)[i].migration.version < Executed(r)[j].migration.version

\* C2: a run_migrations that repeats, with the same slice, a call that returned
\* Ok executes no SQL, applies nothing, leaves the ledger as loaded, and when it
\* returns Ok has skipped every descriptor.
RepeatsOk(r) == prev[r].kind = "Run" /\ prev[r].result = Ok /\ prev[r].same
C2_RunIdempotent ==
    \A r \in Runners :
        RepeatsOk(r) =>
            /\ runLog[r] = <<>>
            /\ total_applied[r] = 0
            /\ Looped(r) => AppliedMap(ledger) = applied[r]
            /\ Looped(r) => total_skipped[r] = idx[r] - 1
            /\ ReturnedOk(r) => total_skipped[r] = Len(migrations[r])
C2_Witness ==
    \E r \in Runners :
        /\ RepeatsOk(r)
        /\ ReturnedOk(r)
        /\ Len(migrations[r]) = MaxLen
        /\ total_skipped[r] = MaxLen
        /\ ledger # EmptyBag

\* The executions of this call of r that failed.
Failed(r) == {i \in DOMAIN runLog[r] : ~runLog[r][i].ok}

\* C3: a failing SQL execution ends the call at once with the error: it is the
\* last execution of the call, every execution of the call is of a descriptor
\* before it in the processing order, and the ledger holds what it held when
\* loaded plus the entries of the executions before the failure.
C3_FailureAborts ==
    \A r \in Runners : \A i \in Failed(r) :
        /\ i = Len(runLog[r])
        /\ pc[r] = "returned"
        /\ result[r] = MigrationError(runLog[r][i].migration, StoreDown)
        /\ queue[r][idx[r]] = runLog[r][i].migration
        /\ \A e \in Range(Executed(r)) : \E j \in 1..(idx[r] - 1) : queue[r][j] = e.migration
        /\ total_applied[r] = Len(Executed(r))
        /\ LedgerPairs(ledger) = LoadedPairs(r) \cup ExecutedPairs(r)
C3_Witness ==
    \E r \in Runners :
        /\ Failed(r) # {}
        /\ idx[r] < Len(queue[r])
        /\ Pair(queue[r][idx[r] + 1]) \notin LedgerPairs(ledger) \cup {Pair(queue[r][idx[r]])}

\* C4: a run_migrations that comes back, on the same (module, version) set, to a
\* call that aborted on the SQL of m, and returns Ok, has executed m, has
\* executed exactly the descriptors' pairs the ledger did not hold (so skipped
\* all recorded before the abort), and leaves every pair of the slice recorded.
ResumesAfter(r, m) ==
    prev[r].kind = "Run" /\ prev[r].result = MigrationError(m, StoreDown)
C4_Resumable ==
    \A r \in Runners : \A m \in Catalog :
        ResumesAfter(r, m) =>
            /\ Looped(r) => ExecutedPairs(r) \cap LoadedPairs(r) = {}
            /\ ReturnedOk(r) =>
                  /\ Pair(m) \in ExecutedPairs(r)
                  /\ ExecutedPairs(r) = Pairs(migrations[r]) \ LoadedPairs(r)
                  /\ Pairs(migrations[r]) \subseteq LedgerPairs(ledger)
                  /\ total_applied[r] + total_skipped[r] = Len(migrations[r])
C4_Witness ==
    \E r \in Runners : \E m \in Catalog :
        /\ ResumesAfter(r, m)
        /\ ReturnedOk(r)
        /\ total_skipped[r] >= 1
        /\ LoadedPairs(r) \cap Pairs(migrations[r]) # {}
        /\ Pair(m) \in ExecutedPairs(r)

\* The number of ledger rows of pair p.
Entries(p) == BagCardinality([row \in RowsOf(ledger, p) |-> ledger[row]])
AllPairs == {Pair(m) : m \in Catalog}

\* C5: the ledger never holds two entries of one (module, version), and no step
\* of any call removes or changes an entry: every row keeps its copies.
LedgerUnique == \A p \in AllPairs : Entries(p) <= 1
LedgerGrows == \A row \in BagToSet(ledger) : CopiesIn(row, ledger') >= CopiesIn(row, ledger)
C5_LedgerUniqueAndGrowing == [](LedgerUnique) /\ [][LedgerGrows]_vars
C5_Witness ==
    \E r1, r2 \in Runners :
        /\ r1 # r2
        /\ ReturnedOk(r1) /\ total_applied[r1] = 1
        /\ pc[r2] = "returned" /\ result[r2] = RecordError(UniqueViolation)
        /\ ledger # EmptyBag

\* C6: every pair in the ledger had its SQL executed successfully, by the call
\* that recorded it; a descriptor whose execution failed has no entry when the
\* call has returned, and the call returned a DatabaseError.
C6_RecordedOnlyAfterSuccess ==
    /\ LedgerPairs(ledger) \subseteq executed
    /\ \A r \in Runners :
          /\ Looped(r) => (LedgerPairs(ledger) \ LoadedPairs(r)) \subseteq ExecutedPairs(r)
          /\ \A i \in Failed(r) :
                /\ Pair(runLog[r][i].migration) \notin LedgerPairs(ledger)
                /\ pc[r] = "returned"
                /\ result[r].kind = "DatabaseError"
C6_Witness ==
    \E r \in Runners :
        /\ Failed(r) # {}
        /\ Executed(r) # <<>>
        /\ ExecutedPairs(r) \subseteq LedgerPairs(ledger)

\* C7: the SQL of a (module, version) is never executed successfully when it
\* has already taken effect on the store.
C7_ExecutedAtMostOnce ==
    [][\A r \in Runners :
          (pc[r] = "exec" /\ pc'[r] = "record") => Pair(queue[r][idx[r]]) \notin executed]_vars

\* C8: whenever a call has executed version N of a module and the slice also
\* holds version N-1 of that module, the ledger holds the entry of version N-1.
C8_PredecessorRecordedFirst ==
    \A r \in Runners : \A e \in Range(Executed(r)) : \A m \in Range(migrations[r]) :
        (m.module = e.migration.module /\ m.version = e.migration.version - 1)
        => Pair(m) \in LedgerPairs(ledger)

\* Position j of the processing order is a second descriptor of its pair.
Dup(r, j) == \E i \in 1..(j - 1) : Pair(queue[r][i]) = Pair(queue[r][j])
StoreFailure(r) ==
    result[r] \in {TableError(StoreDown), FetchError(StoreDown), CheckError(StoreDown),
                   RecordError(StoreDown)} \cup {MigrationError(m, StoreDown) : m \in Catalog}

\* C9 (as claimed): a call whose slice holds two descriptors of a pair the
\* ledger lacked, and that no store outage ended, returns the DatabaseError of
\* a rejected insert, the ledger holding one entry of the pair.
C9_DuplicateRejected ==
    \A r \in Runners :
        (/\ pc[r] = "returned" /\ idx[r] >= 1
         /\ ~StoreFailure(r)
         /\ \E j \in DOMAIN queue[r] : Dup(r, j) /\ Pair(queue[r][j]) \notin LoadedPairs(r))
        => /\ result[r] = RecordError(UniqueViolation)
           /\ \A j \in DOMAIN queue[r] : Dup(r, j) => Entries(Pair(queue[r][j])) = 1

\* C9 (amended): the second descriptor of a pair is never executed nor
\* inserted: is_applied finds the pair and it is skipped, no rejected insert
\* comes from it, and the ledger holds one entry of the pair once the call is
\* past it, and never more than one.
C9_DuplicateSkipped ==
    \A r \in Runners :
        /\ pc[r] \in {"exec", "record"} => ~Dup(r, idx[r])
        /\ \A i, j \in DOMAIN runLog[r] :
              i # j => Pair(runLog[r][i].migration) # Pair(runLog[r][j].migration)
        /\ (pc[r] = "returned" /\ result[r] = RecordError(UniqueViolation)) => ~Dup(r, idx[r])
        /\ Looped(r) =>
              total_skipped[r] >= Cardinality({j \in DOMAIN queue[r] : j < idx[r] /\ Dup(r, j)})
        /\ \A j \in DOMAIN queue[r] :
              /\ Entries(Pair(queue[r][j])) <= 1
              /\ (Looped(r) /\ Dup(r, j) /\ j < idx[r]) => Entries(Pair(queue[r][j])) = 1
C9_Witness ==
    \E r \in Runners :
        /\ ReturnedOk(r)
        /\ Len(queue[r]) = 2 /\ Dup(r, 2) /\ queue[r][1] # queue[r][2]
        /\ LoadedPairs(r) = {}
        /\ total_applied[r] = 1 /\ total_skipped[r] = 1
        /\ Entries(Pair(queue[r][2])) = 1

\* This call of r executed the SQL of p and its insert went through.
AtRecord(r, p) == pc[r] = "record" /\ Pair(queue[r][idx[r]]) = p
RecordFailed(r, p) ==
    /\ pc[r] = "returned" /\ idx[r] \in DOMAIN queue[r] /\ Pair(queue[r][idx[r]]) = p
    /\ result[r] \in {RecordError(UniqueViolation), RecordError(StoreDown)}
Inserted(r, p) == p \in ExecutedPairs(r) /\ ~AtRecord(r, p) /\ ~RecordFailed(r, p)

\* C10: when the calls of two runners have both executed the SQL of one pair,
\* at most one of them gets its insert through: the other is still to insert
\* or has returned the DatabaseError of record_migration; a call that returned
\* the uniqueness failure executed the pair, and the ledger holds exactly one
\* entry of it.
C10_RaceRejected ==
    /\ \A r1, r2 \in Runners : \A p \in AllPairs :
          (r1 # r2 /\ p \in ExecutedPairs(r1) \cap ExecutedPairs(r2))
          => /\ ~(Inserted(r1, p) /\ Inserted(r2, p))
             /\ Entries(p) <= 1
             /\ (Inserted(r1, p) /\ ~AtRecord(r2, p)) =>
                   (RecordFailed(r2, p) /\ result[r2].kind = "DatabaseError" /\ Entries(p) = 1)
    /\ \A r \in Runners :
          (pc[r] = "returned" /\ result[r] = RecordError(UniqueViolation))
          => /\ Pair(queue[r][idx[r]]) \in ExecutedPairs(r)
             /\ Entries(Pair(queue[r][idx[r]])) = 1
C10_Witness ==
    \E r1, r2 \in Runners : \E p \in AllPairs :
        /\ r1 # r2
        /\ p \in ExecutedPairs(r1) \cap ExecutedPairs(r2)
        /\ Inserted(r1, p)
        /\ RecordFailed(r2, p) /\ result[r2] = RecordError(UniqueViolation)
        /\ Entries(p) = 1

\* The ledger row of the pair of m disagrees with m on name and on checksum.
Edited(m) ==
    \E row \in RowsOf(ledger, Pair(m)) : row.name # m.name /\ row.checksum # checksum(m)

FreshAt(r) == {i \in DOMAIN migrations[r] : Pair(migrations[r][i]) \notin LoadedPairs(r)}
\* The (module, version)s of the slice that the ledger lacked.
FreshPairs(r) == Pairs(migrations[r]) \ LoadedPairs(r)

\* C12 (as claimed): a call that returned Ok has applied as many descriptors
\* as the slice has descriptors whose pair the ledger lacked before the call,
\* and skipped as many as it has descriptors whose pair the ledger held.
C12_CountsPerDescriptor ==
    \A r \in Runners :
        ReturnedOk(r) =>
            /\ total_applied[r] = Cardinality(FreshAt(r))
            /\ total_skipped[r] = Len(migrations[r]) - Cardinality(FreshAt(r))
            /\ total_applied[r] + total_skipped[r] = Len(migrations[r])

\* C12 (amended): a call that returned Ok, no other call overlapping it, has
\* applied as many descriptors as the slice has distinct pairs the ledger
\* lacked before the call and skipped all the others (the descriptors of
\* recorded pairs, and every further descriptor of a pair applied earlier in
\* the call); applied + skipped is the length of the slice.
C12_CountsPerPair ==
    \A r \in Runners :
        ReturnedOk(r) =>
            /\ total_applied[r] = Cardinality(FreshPairs(r))
            /\ total_skipped[r] = Len(migrations[r]) - Cardinality(FreshPairs(r))
            /\ total_applied[r] + total_skipped[r] = Len(migrations[r])
C12_Witness ==
    \E r \in Runners :
        /\ ReturnedOk(r)
        /\ Cardinality(FreshAt(r)) = 2
        /\ Cardinality(FreshPairs(r)) = 1
        /\ total_applied[r] = 1
        /\ total_skipped[r] = 1

\* What a get_status that returned Ok gave back.
Statuses(r) == result[r].statuses
StatusReturned(r) == pc[r] = "status_returned" /\ result[r].kind = "Statuses"
InStatus(r) == pc[r] \in {"status_ensure", "status_select"}

\* C13: a get_status that returned Ok, no call overlapping it, returned one
\* entry per ledger row and per recorded (module, version), with the row's
\* module, version, name and duration, ordered by module then version; and no
\* step of get_status changes the rows of the ledger or what was executed.
C13_StatusReadsLedger ==
    /\ [](\A r \in Runners :
            StatusReturned(r) =>
                /\ Len(Statuses(r)) = BagCardinality(ledger)
                /\ Len(Statuses(r)) = Cardinality(LedgerPairs(ledger))
                /\ Range(Statuses(r)) = {MigrationStatus(row) : row \in BagToSet(ledger)}
                /\ \A i, j \in DOMAIN Statuses(r) :
                      i < j => RowBefore(Statuses(r)[i], Statuses(r)[j]))
    /\ [][\A r \in Runners :
            InStatus(r) => (ledger' = ledger /\ executed' = executed)]_vars
C13_Witness ==
    \E r \in Runners :
        /\ StatusReturned(r)
        /\ Len(Statuses(r)) = 2
        /\ Statuses(r)[1].module = "products"
        /\ Statuses(r)[2].module = "users"
        /\ Statuses(r)[2].name = "create_users"

NoStatuses == [kind |-> "Statuses", statuses |-> <<>>]
StatusStoreFailure(r) == result[r] \in {TableError(StoreDown), StatusError(StoreDown)}

\* C14: get_status reaches its SELECT only with the ledger table in place,
\* having created it when the store had none; and on a ledger without rows it
\* returns Ok with an empty Vec, unless the store failed one of its two calls.
C14_StatusOfEmptyLedger ==
    \A r \in Runners :
        /\ pc[r] = "status_select" => tableExists
        /\ (pc[r] = "status_returned" /\ ledger = EmptyBag /\ ~StatusStoreFailure(r))
           => result[r] = NoStatuses
C14_Witness ==
    \E r \in Runners :
        /\ pc[r] = "status_returned"
        /\ result[r] = NoStatuses
        /\ calls = 1
        /\ tableExists

\* The step is r's own step out of the is_applied await.
ChecksNow(r) == pc[r] = "check" /\ <<pc[r], idx[r], result[r]>>' # <<pc[r], idx[r], result[r]>>
RecordedNow(r) == Pair(queue[r][idx[r]]) \in LedgerPairs(ledger)

\* C15: every decision is taken on the rows the store holds at that moment,
\* whichever runner inserted them: a descriptor is skipped only when its pair
\* is in the ledger now, goes on to execution only when it is not, a pair in
\* the ledger is always skipped (or the query fails on the store), and a
\* get_status that returns Ok returns the rows the store holds now.
C15_DecidesFromCurrentLedger ==
    [][\A r \in Runners :
          /\ (pc[r] = "check" /\ total_skipped'[r] = total_skipped[r] + 1) => RecordedNow(r)
          /\ (pc[r] = "check" /\ pc'[r] = "exec") => ~RecordedNow(r)
          /\ (ChecksNow(r) /\ RecordedNow(r))
             => (total_skipped'[r] = total_skipped[r] + 1 \/ result'[r] = CheckError(StoreDown))
          /\ (pc[r] = "status_select" /\ pc'[r] = "status_returned"
                /\ result'[r].kind = "Statuses")
             => /\ Len(result'[r].statuses) = BagCardinality(ledger)
                /\ Range(result'[r].statuses) = {MigrationStatus(row) : row \in BagToSet(ledger)}]_vars
C15_Witness ==
    \E r1, r2 \in Runners :
        /\ r1 # r2
        /\ ReturnedOk(r1) /\ total_applied[r1] = 1
        /\ ReturnedOk(r2) /\ runLog[r2] = <<>>
        /\ LoadedPairs(r2) # {}
        /\ total_skipped[r2] = Len(queue[r2]) /\ Len(queue[r2]) >= 1

TableFailed(r) == result[r] = TableError(StoreDown)

\* C16: a call whose ensure_migrations_table failed has returned that
\* DatabaseError, has not loaded the ledger, has executed no SQL and applied
\* nothing; and the failing step leaves the rows of the ledger and what was
\* executed as they were.
C16_TableFailureAborts ==
    /\ [](\A r \in Runners :
            TableFailed(r) =>
                /\ pc[r] \in {"returned", "status_returned"}
                /\ result[r].kind = "DatabaseError"
                /\ idx[r] = 0 /\ applied[r] = <<>> /\ queue[r] = <<>>
                /\ runLog[r] = <<>>
                /\ total_applied[r] = 0)
    /\ [][\A r \in Runners :
            (~TableFailed(r) /\ TableFailed(r)') =>
                (pc[r] \in {"ensure", "status_ensure"} /\ ledger' = ledger /\ executed' = executed)]_vars
C16_Witness ==
    \E r \in Runners :
        /\ pc[r] = "returned"
        /\ TableFailed(r)
        /\ ledger # EmptyBag
        /\ ~(Pairs(migrations[r]) \subseteq LedgerPairs(ledger))

\* The step is r's ensure_migrations_table on a store that has the table.
EnsuresAgain(r) == pc[r] \in {"ensure", "status_ensure"} /\ tableExists /\ pc'[r] # pc[r]

\* C17: an ensure_migrations_table on a store that already has the ledger
\* table leaves the table in place and every row of the ledger as it was, and
\* the call goes on to its next query: the only error it can return is that of
\* a store that failed the statement.
C17_EnsureIdempotent ==
    [][\A r \in Runners :
          EnsuresAgain(r) =>
              /\ tableExists'
              /\ ledger' = ledger
              /\ executed' = executed
              /\ \/ pc[r] = "ensure" /\ pc'[r] = "load" /\ result'[r] = result[r]
                 \/ pc[r] = "status_ensure" /\ pc'[r] = "status_select" /\ result'[r] = result[r]
                 \/ result'[r] = TableError(StoreDown)]_vars
C17_Witness ==
    \E r \in Runners :
        /\ pc[r] \in {"load", "status_select"}
        /\ calls = MaxCalls
        /\ ledger # EmptyBag

\* Both descriptors have had checksum() called.
BothSummed == built # <<>> /\ \A k \in DOMAIN built : checksums[k] # <<>>

\* C18: two descriptors whose sql texts differ have different checksum()s.
C18_DifferentSqlDifferentChecksum ==
    (BothSummed /\ built[1].sql # built[2].sql)
    => checksums[1][1] # checksums[2][1]

\* C19: every checksum() call on one descriptor returns the same non-empty
\* value; two descriptors with the same sql return the same value, whatever
\* their module, version and name; the empty sql gives "0-48-48".
C19_ChecksumOfSqlAlone ==
    /\ \A k \in DOMAIN built : \A i \in DOMAIN checksums[k] :
          /\ checksums[k][i] = checksums[k][1]
          /\ checksums[k][i] # ""
          /\ built[k].sql = <<>> => checksums[k][i] = "0-48-48"
    /\ (BothSummed /\ built[1].sql = built[2].sql) => checksums[1][1] = checksums[2][1]
C19_Witness ==
    /\ BothSummed
    /\ built[1].sql = <<>> /\ built[2].sql = <<>>
    /\ built[1].module # built[2].module
    /\ built[1].version # built[2].version
    /\ built[1].name # built[2].name
    /\ Len(checksums[1]) = MaxSums
    /\ checksums[1][MaxSums] = checksums[2][1]

\* The message of the error of a failed SQL, spelt out for module and version.
FailureText(module, version) ==
    "Migration " \o module \o ":version_" \o ToString(version) \o " failed: " \o StoreDown

\* C20: a call whose SQL execution of m failed has returned a DatabaseError
\* whose message holds m's module, ":version_", m's version and the error text
\* of the store; m is the descriptor the call stopped at, and the message is
\* that of no descriptor of another (module, version).
C20_ErrorNamesFailedMigration ==
    \A r \in Runners : \A i \in Failed(r) :
        LET m == runLog[r][i].migration IN
        /\ pc[r] = "returned"
        /\ result[r].kind = "DatabaseError"
        /\ result[r].msg = FailureText(m.module, m.version)
        /\ result[r].msg = "Migration " \o id(m) \o " failed: " \o StoreDown
        /\ m = queue[r][idx[r]]
        /\ \A o \in Catalog :
              Pair(o) # Pair(m) => result[r].msg # FailureText(o.module, o.version)
C20_Witness ==
    \E r \in Runners :
        /\ Failed(r) # {}
        /\ idx[r] = 2
        /\ Len(Executed(r)) = 1
        /\ Pair(queue[r][1]) # Pair(queue[r][2])
        /\ result[r].msg = FailureText(queue[r][2].module, queue[r][2].version)

\* The first position of the slice that satisfies Test.
FirstAt(migs, Test(_)) ==
    CHOOSE i \in DOMAIN migs : Test(migs[i]) /\ \A j \in 1..(i - 1) : ~Test(migs[j])
\* The reference order: modules visited in the order the slice first names them.
SliceOrder(migs) ==
    LET mods == DOMAIN ByModule(migs)
        first(mod) == FirstAt(migs, LAMBDA m : m.module = mod)
    IN CHOOSE o \in IterOrders(mods) : \A i, j \in DOMAIN o : i < j => first(o[i]) < first(o[j])
Reference(migs) == Flatten(ByModule(migs), SliceOrder(migs))
\* The descriptors the reference order processes before its first m.
BeforeInReference(migs, m) ==
    LET ref == Reference(migs)
    IN SubSeq(ref, 1, FirstAt(ref, LAMBDA o : o = m) - 1)
\* The ledger holds what the call loaded, and for each pair of `done` that the
\* ledger lacked the row of the first descriptor of the pair in the slice.
LedgerAfter(r, done) ==
    /\ LedgerPairs(ledger) = LoadedPairs(r) \cup Pairs(done)
    /\ \A row \in BagToSet(ledger) :
          /\ ledger[row] = 1
          /\ IF <<row.module, row.version>> \in LoadedPairs(r)
                THEN /\ applied[r][AppliedKey(row)].name = row.name
                     /\ applied[r][AppliedKey(row)].checksum = row.checksum
                ELSE row = Row(migrations[r][FirstAt(migrations[r],
                                   LAMBDA m : Pair(m) = <<row.module, row.version>>)], Elapsed)
CountsAfter(r, done) ==
    /\ total_applied[r] = Cardinality(Pairs(done) \ LoadedPairs(r))
    /\ total_skipped[r] = Len(done) - Cardinality(Pairs(done) \ LoadedPairs(r))
\* The call of r was ended by the failing SQL of the descriptor it stopped at.
SqlFailed(r) == pc[r] = "returned" /\ Failed(r) # {}

\* C21 (as claimed): whatever order the modules are visited in, a call ends
\* with the ledger and the counts that the reference order gives for the same
\* slice, the same starting ledger and the same outcome of each SQL: also a
\* call that a failing SQL ended.
C21_OrderNeverMatters ==
    \A r \in Runners :
        /\ ReturnedOk(r) => (LedgerAfter(r, migrations[r]) /\ CountsAfter(r, migrations[r]))
        /\ SqlFailed(r) =>
              /\ LedgerAfter(r, BeforeInReference(migrations[r], queue[r][idx[r]]))
              /\ CountsAfter(r, BeforeInReference(migrations[r], queue[r][idx[r]]))

\* C21 (amended): a call that returned Ok ends, whatever order the modules
\* were visited in, with the ledger it loaded plus one row per pair it lacked
\* (that of the pair's first descriptor in the slice) and with the counts of
\* the reference order; a call that a failing SQL ended has applied only
\* the descriptors it visited before the failing one, which depends on the order.
C21_OrderIrrelevantWhenOk ==
    \A r \in Runners :
        /\ ReturnedOk(r) => (LedgerAfter(r, migrations[r]) /\ CountsAfter(r, migrations[r]))
        /\ SqlFailed(r) =>
              /\ LedgerAfter(r, SubSeq(queue[r], 1, idx[r] - 1))
              /\ CountsAfter(r, SubSeq(queue[r], 1, idx[r] - 1))
C21_Witness ==
    \E r \in Runners :
        /\ ReturnedOk(r)
        /\ queue[r] # Reference(migrations[r])
        /\ LoadedPairs(r) = {}
        /\ total_applied[r] = 2
        /\ LedgerAfter(r, migrations[r])

\* The pairs whose SQL this call of r executed and whose row is not written.
Unrecorded(r) == ExecutedPairs(r) \ LedgerPairs(ledger)

\* C22: in a call at most one pair is executed and not yet recorded, and it is
\* the one the call is at, waiting for its insert or stopped by the insert's
\* failure; when the call is at the is_applied or the SQL of a descriptor,
\* every pair it executed before is recorded.
C22_OneAtATime ==
    \A r \in Runners :
        /\ Cardinality(Unrecorded(r)) <= 1
        /\ \A p \in Unrecorded(r) :
              /\ idx[r] \in DOMAIN queue[r]
              /\ p = Pair(queue[r][idx[r]])
              /\ pc[r] = "record" \/ RecordFailed(r, p)
        /\ pc[r] \in {"check", "exec"} => Unrecorded(r) = {}
        /\ ReturnedOk(r) => Unrecorded(r) = {}
C22_Witness ==
    \E r \in Runners :
        /\ pc[r] = "exec"
        /\ idx[r] = 2
        /\ Len(Executed(r)) = 1
        /\ queue[r][1].module # queue[r][2].module
        /\ Pair(queue[r][1]) \in LedgerPairs(ledger)

\* Both descriptors have had id() called.
BothNamed == built # <<>> /\ \A k \in DOMAIN built : ids[k] # <<>>

\* C23: id() is module, ":version_" and the version in decimal:
\* "users:version_1" for ("users", 1), "products:version_5" for
\* ("products", 5); two descriptors of one module and version have the same
\* id() whatever their name and sql, and others have different ones.
C23_IdFormat ==
    /\ \A k \in DOMAIN built : \A i \in DOMAIN ids[k] :
          /\ ids[k][i] = built[k].module \o ":version_" \o ToString(built[k].version)
          /\ (built[k].module = "users" /\ built[k].version = 1) => ids[k][i] = "users:version_1"
          /\ (built[k].module = "products" /\ built[k].version = 5)
                => ids[k][i] = "products:version_5"
    /\ BothNamed => (ids[1] = ids[2] <=> Pair(built[1]) = Pair(built[2]))
C23_Witness ==
    /\ BothNamed
    /\ ids[1] = <<"users:version_1">>
    /\ ids[2] = <<"products:version_5">>
    /\ built[1].name # built[2].name
    /\ built[1].sql # built[2].sql

\* ------------------------------------------------------------------ C24
\* No two users of `map` share a username, and no two share an email.
Unique(map) ==
    \A a, b \in DOMAIN map :
        a # b => map[a].username # map[b].username /\ map[a].email # map[b].email
\* The users `map` would hold had the call `op` been carried out unchecked.
Unchecked(map, op) ==
    IF op.kind = "create" THEN Put(map, op.id, User(op.id, op.dto))
    ELSE IF op.kind = "update" /\ op.id \in DOMAIN map
        THEN Put(map, op.id, Apply(op.dto, map[op.id]))
    ELSE map
WouldBreak(map, op) == Unique(map) /\ ~Unique(Unchecked(map, op))

\* C24: with one caller at a time, no two stored users share a username or an
\* email, and a create_user or update_user that would make two users share one
\* has returned ValidationError with the stored users as they were at the call.
C24_UniqueWhenSequential ==
    /\ Unique(storage)
    /\ \A c \in service.clients :
          LET call == service.calls[c] IN
          (call.pc = "returned" /\ WouldBreak(call.before, call.op))
              => call.res.kind = "ValidationError" /\ storage = call.before
\* An update_user that would give the second stored user the name of the first
\* has returned.
C24_Witness ==
    \E c \in service.clients :
        LET call == service.calls[c] IN
        /\ call.pc = "returned" /\ call.op.kind = "update"
        /\ Cardinality(DOMAIN storage) = 2
        /\ WouldBreak(call.before, call.op)
        /\ call.res.kind = "ValidationError"

\* ------------------------------------------------------------------ C25
\* C25: whatever the interleaving of overlapping create_user / update_user
\* calls on one repository, no two stored users share a username or an email.
C25_UniqueUnderConcurrency == service.clients = Clients => Unique(storage)

\* ------------------------------------------------------------------ C29
\* C29: a delete_user(id) that has returned, with no other call overlapping,
\* returned NotFound(id) with the stored users as they were when id was not
\* stored, and true with exactly that user gone when it was; a get_user of an
\* id that was deleted returns NotFound(id).
C29_DeleteUser ==
    \A c \in service.clients :
        LET call == service.calls[c] IN
        call.pc = "returned" =>
            /\ call.op.kind = "delete" =>
                  IF call.op.id \in DOMAIN call.before
                      THEN /\ call.res = OkBool(TRUE)
                           /\ storage = Without(call.before, call.op.id)
                           /\ call.op.id \in service.deleted
                      ELSE call.res = NotFound(call.op.id) /\ storage = call.before
            /\ (call.op.kind = "get" /\ call.op.id \in service.deleted)
                  => call.res = NotFound(call.op.id)
\* A get_user of a deleted user has returned while another user is stored.
C29_Witness ==
    \E c \in service.clients :
        LET call == service.calls[c] IN
        /\ call.pc = "returned" /\ call.op.kind = "get"
        /\ call.op.id \in service.deleted
        /\ storage # <<>>
        /\ call.res = NotFound(call.op.id)

\* ------------------------------------------------------------------ C26
\* The call that follows call i on the same unit of work, if one was made.
Following(i) ==
    {j \in DOMAIN uow.log :
        /\ j > i /\ uow.log[j].uow = uow.log[i].uow
        /\ \A k \in DOMAIN uow.log : (i < k /\ k < j) => uow.log[k].uow # uow.log[i].uow}
AlreadyStarted == InternalError("Transaction already started")
NoActive(op) == InternalError("No active transaction to " \o op)

\* C26: on either unit of work, a begin() with a transaction active returned
\* InternalError and kept it; a commit() or rollback() with none active returned
\* InternalError and changed nothing; a commit() or rollback() with one active
\* left none active whether or not the store call succeeded, and a begin()
\* that follows is not rejected as already started.
C26_UnitOfWorkStates ==
    \A i \in DOMAIN uow.log :
        LET e == uow.log[i] IN
        /\ (e.op = "begin" /\ e.before # Nothing)
              => e.result = AlreadyStarted /\ e.after = e.before
        /\ (e.op # "begin" /\ e.before = Nothing)
              => e.result = NoActive(e.op) /\ e.after = e.before
        /\ (e.op # "begin" /\ e.before # Nothing)
              => /\ e.after = Nothing
                 /\ e.result \in {Ok, DatabaseError(StoreDown)}
                 /\ \A j \in Following(i) :
                       uow.log[j].op = "begin" => uow.log[j].result # AlreadyStarted
\* A commit() that the store failed was followed by a begin() that succeeded.
C26_Witness ==
    \E i \in DOMAIN uow.log : \E j \in Following(i) :
        /\ uow.log[i].op = "commit" /\ uow.log[i].before # Nothing
        /\ uow.log[i].result = DatabaseError(StoreDown)
        /\ uow.log[j].op = "begin" /\ uow.log[j].result = Ok

\* ------------------------------------------------------------------ C27
\* C27: a begin() that returned a store error left no transaction or session
\* behind: a begin() that follows is not rejected as already started, and a
\* commit() or rollback() that follows reports that no transaction is active.
C27_FailedBeginLeavesNothing ==
    \A i \in DOMAIN uow.log :
        LET e == uow.log[i] IN
        (e.op = "begin" /\ e.result.kind = "DatabaseError")
            => /\ e.after = Nothing
               /\ \A j \in Following(i) :
                     IF uow.log[j].op = "begin"
                         THEN uow.log[j].result # AlreadyStarted
                         ELSE uow.log[j].result = NoActive(uow.log[j].op)

\* ------------------------------------------------------------------ C28
\* C28: right after with_data(users), find_all() returns exactly the supplied
\* users and count() their number.
C28_WithDataHoldsData ==
    data.constructed =>
        /\ data.observed.find_all # Nothing => data.observed.find_all[1] = Range(data.supplied)
        /\ data.observed.count # Nothing => data.observed.count[1] = Len(data.supplied)

\* ------------------------------------------------------------------ C30
\* C30: an insert on a stored id returned an error and kept what was stored,
\* an update_entity on an absent id returned an error and stored nothing, and
\* the storage holds, and count_all() returns, the number of successful inserts
\* minus the number of remove() calls that returned true since the last clear().
C30_CountIsInsertsMinusRemoves ==
    /\ (base.last.op = "insert" /\ base.last.id \in DOMAIN base.last.before)
          => base.last.result = AlreadyExists(NilId) /\ storage = base.last.before
    /\ (base.last.op = "update_entity" /\ base.last.id \notin DOMAIN base.last.before)
          => base.last.result = NotFound(NilId) /\ storage = base.last.before
    /\ count_all(storage) = base.inserts - base.removes
    /\ base.last.op = "count_all" => base.last.result = base.inserts - base.removes
\* An insert on a stored id was rejected after a remove had returned true,
\* with two entities stored.
C30_Witness ==
    /\ base.last.op = "insert" /\ base.last.id \in DOMAIN base.last.before
    /\ base.last.result = AlreadyExists(NilId)
    /\ base.removes > 0
    /\ count_all(storage) = 2
====
